---- MODULE Spec2Model ----
(***************************************************************************)
(* Model of maze.py: the Maze class (randomized depth-first-search maze    *)
(* generator with a goal-path cache).  The object is the record `maze`;    *)
(* every method is an operator from the object to the object after the     *)
(* call plus the value returned (or the exception raised), and an action   *)
(* applies it to the variables.                                            *)
(***************************************************************************)
EXTENDS Integers, Sequences, FiniteSets, TLC

VARIABLES
    maze,       \* the Maze instance: its fields, as set by __init__
    ret,        \* outcome of the last call: method, argument, value, exception
    startPos,   \* the startPos the instance was constructed with
    hist,       \* history of the calls made so far (counters, see Advance)
    driver      \* the locals of main() (window, seed, goal, flags), see MainInit

vars == <<maze, ret, startPos, hist, driver>>

----------------------------------------------------------------------------
(* Bounds of the model *)

MaxW == 3
MaxH == 3
MaxSize == 6
MaxSeed == 7
MaxIdle == 2
WinW == 80
WinH == 48
MaxEvents == 2
MaxClicks == 1

----------------------------------------------------------------------------
(* Maze.CELLFLAGS, Maze.DIRECTION, Maze.DIRECTIONS *)

CLEAR == {}
CELL_PATH_N == "CELL_PATH_N"
CELL_PATH_E == "CELL_PATH_E"
CELL_PATH_S == "CELL_PATH_S"
CELL_PATH_W == "CELL_PATH_W"
CELL_VISITED == "CELL_VISITED"

NORTH == 0
EAST == 1
SOUTH == 2
WEST == 3

\* DIRECTIONS[d] of the source is DIRECTIONS[d + 1] here (sequences start at 1)
DIRECTIONS == << <<0, -1>>, <<1, 0>>, <<0, 1>>, <<-1, 0>> >>

----------------------------------------------------------------------------
(* Python lists: self.cells is a function on 0 .. len-1.  An index i is     *)
(* accepted when -len <= i < len, a negative one counting from the end;    *)
(* any other index raises IndexError.                                      *)

ListIndexOk(list, i) ==
    LET n == Cardinality(DOMAIN list) IN (0 - n) <= i /\ i < n

ListIndex(list, i) ==
    IF i < 0 THEN i + Cardinality(DOMAIN list) ELSE i

(* random.Random: the generator state is an integer; a draw below n takes   *)
(* the residue and keeps the quotient, so the seeds 0 .. k-1 enumerate     *)
(* every sequence of choices whose list lengths multiply to at most k.     *)

seed(randomSeed) == randomSeed

choice(random, seq) ==
    [value |-> seq[(random % Len(seq)) + 1], random |-> random \div Len(seq)]

----------------------------------------------------------------------------
(* Maze.get_cell, Maze.set_cell, Maze.offset *)

CellIndex(m, pos) == pos[2] * m.width + pos[1]

CellIndexOk(m, pos) == ListIndexOk(m.cells, CellIndex(m, pos))

get_cell(m, pos) == m.cells[ListIndex(m.cells, CellIndex(m, pos))]

set_cell(m, pos, cell) ==
    [m EXCEPT !.cells[ListIndex(m.cells, CellIndex(m, pos))] = cell]

offset(pos, off) == <<pos[1] + off[1], pos[2] + off[2]>>

----------------------------------------------------------------------------
(* Maze.__init__ *)

\* the fields as assigned before "Begin" (lines 75-85) and the push of startPos
MazeFields(width, height, start, randomSeed) ==
    [ width        |-> width,
      height       |-> height,
      size         |-> width * height,
      cells        |-> [i \in 0 .. (width * height - 1) |-> CLEAR],
      visitedCells |-> 0,
      stack        |-> <<start>>,
      random       |-> seed(randomSeed),
      goalPath     |-> <<>>,
      goalFound    |-> FALSE,
      lastGoalPos  |-> <<>> ]

\* set_cell(startPos, ...) of line 89 raises IndexError
InitRaises(width, height, start) ==
    ~CellIndexOk(MazeFields(width, height, start, 0), start)

\* slip: the start cell is pushed and counted but never marked
MarkStart_Forgotten(m, start) == m

\* the start cell is marked: set_cell(startPos, CELL_VISITED)
MarkStart(m, start) == set_cell(m, start, {CELL_VISITED})

\* slip: "self.visitedCells = 1" left out, the counter stays 0
NewMaze_NotCounted(width, height, start, randomSeed) ==
    MarkStart(MazeFields(width, height, start, randomSeed), start)

\* the constructed object (when set_cell does not raise)
NewMaze(width, height, start, randomSeed) ==
    [MarkStart(MazeFields(width, height, start, randomSeed), start)
        EXCEPT !.visitedCells = 1]

----------------------------------------------------------------------------
(* Maze.get_unvisited_neighbors *)

\* the bounds guard of each direction, as written in the four if statements
\* slip: the eastern bound tested against the wrong edge
InGrid_NoEast(m, pos, dir) ==
    CASE dir = NORTH -> pos[2] > 0
      [] dir = EAST  -> pos[1] < 0
      [] dir = SOUTH -> pos[2] < m.height - 1
      [] dir = WEST  -> pos[1] > 0

InGrid(m, pos, dir) ==
    CASE dir = NORTH -> pos[2] > 0
      [] dir = EAST  -> pos[1] < m.width - 1
      [] dir = SOUTH -> pos[2] < m.height - 1
      [] dir = WEST  -> pos[1] > 0

\* slip: the visited test left out, every in-grid neighbour is a candidate
Unvisited_Always(m, pos, dir) == TRUE

\* "CELL_VISITED not in get_cell(offset(pos, DIRECTIONS[dir]))"
Unvisited(m, pos, dir) ==
    CELL_VISITED \notin get_cell(m, offset(pos, DIRECTIONS[dir + 1]))

\* some get_cell the method evaluates raises IndexError
NeighborsRaise(m, pos) ==
    \E dir \in {NORTH, EAST, SOUTH, WEST} :
        InGrid(m, pos, dir) /\ ~CellIndexOk(m, offset(pos, DIRECTIONS[dir + 1]))

\* slip: the four tests written in the order N, S, E, W
get_unvisited_neighbors_Reordered(m, pos) ==
    LET Take(dir) == IF InGrid(m, pos, dir) /\ Unvisited(m, pos, dir)
                     THEN <<dir>> ELSE <<>>
    IN Take(NORTH) \o Take(SOUTH) \o Take(EAST) \o Take(WEST)

get_unvisited_neighbors(m, pos) ==
    LET Take(dir) == IF InGrid(m, pos, dir) /\ Unvisited(m, pos, dir)
                     THEN <<dir>> ELSE <<>>
    IN Take(NORTH) \o Take(EAST) \o Take(SOUTH) \o Take(WEST)

----------------------------------------------------------------------------
(* Maze.advance *)

\* slip: ">" for ">="
Done_Strict(m) == m.visitedCells > m.size

\* line 141: the maze has been filled completely
Done(m) == m.visitedCells >= m.size

\* slip: the SOUTH branch copied from the NORTH branch, flag not changed
PathFlag_CopiedBranch(dir) ==
    CASE dir = NORTH -> CELL_PATH_N
      [] dir = EAST  -> CELL_PATH_E
      [] dir = SOUTH -> CELL_PATH_N
      [] dir = WEST  -> CELL_PATH_W

\* the PATH flag set on the current cell for the chosen direction
PathFlag(dir) ==
    CASE dir = NORTH -> CELL_PATH_N
      [] dir = EAST  -> CELL_PATH_E
      [] dir = SOUTH -> CELL_PATH_S
      [] dir = WEST  -> CELL_PATH_W

\* slip: the WEST branch sets the same flag on both cells
NeighborFlag_SameSide(dir) ==
    CASE dir = NORTH -> CELL_PATH_S
      [] dir = EAST  -> CELL_PATH_W
      [] dir = SOUTH -> CELL_PATH_N
      [] dir = WEST  -> CELL_PATH_W

\* the PATH flag set on the neighbor for the chosen direction
NeighborFlag(dir) ==
    CASE dir = NORTH -> CELL_PATH_S
      [] dir = EAST  -> CELL_PATH_W
      [] dir = SOUTH -> CELL_PATH_N
      [] dir = WEST  -> CELL_PATH_E

\* lines 152-192: carve towards a random unvisited neighbor and push it
\* slip: "self.visitedCells += 1" left out of the carve step
Carve_NoCount(m, currentPos, unvisitedNeighbors) ==
    LET c == choice(m.random, unvisitedNeighbors)
        nextCellDir == c.value
        neighborPos == offset(currentPos, DIRECTIONS[nextCellDir + 1])
        m1 == set_cell(m, currentPos,
                       get_cell(m, currentPos) \cup {PathFlag(nextCellDir)})
        m2 == set_cell(m1, neighborPos,
                       get_cell(m1, neighborPos)
                          \cup {NeighborFlag(nextCellDir), CELL_VISITED})
    IN [m2 EXCEPT !.stack = Append(@, neighborPos),
                  !.random = c.random]

\* slip: "=" for "|=" on the current cell, its earlier flags are lost
Carve_Overwrite(m, currentPos, unvisitedNeighbors) ==
    LET c == choice(m.random, unvisitedNeighbors)
        nextCellDir == c.value
        neighborPos == offset(currentPos, DIRECTIONS[nextCellDir + 1])
        m1 == set_cell(m, currentPos, {PathFlag(nextCellDir)})
        m2 == set_cell(m1, neighborPos,
                       get_cell(m1, neighborPos)
                          \cup {NeighborFlag(nextCellDir), CELL_VISITED})
    IN [m2 EXCEPT !.stack = Append(@, neighborPos),
                  !.visitedCells = @ + 1,
                  !.random = c.random]

Carve(m, currentPos, unvisitedNeighbors) ==
    LET c == choice(m.random, unvisitedNeighbors)
        nextCellDir == c.value
        neighborPos == offset(currentPos, DIRECTIONS[nextCellDir + 1])
        m1 == set_cell(m, currentPos,
                       get_cell(m, currentPos) \cup {PathFlag(nextCellDir)})
        m2 == set_cell(m1, neighborPos,
                       get_cell(m1, neighborPos)
                          \cup {NeighborFlag(nextCellDir), CELL_VISITED})
    IN [m2 EXCEPT !.stack = Append(@, neighborPos),
                  !.visitedCells = @ + 1,
                  !.random = c.random]

\* slip: the dead end is detected but the stack is left as it is
Backtrack_NoPop(m) == m

\* line 198: self.stack.pop()
Backtrack(m) == [m EXCEPT !.stack = SubSeq(@, 1, Len(@) - 1)]

\* the object after the call, the value returned and the exception raised
advance(m) ==
    IF Done(m)
    THEN [maze |-> m, value |-> <<FALSE, FALSE>>, exc |-> "None"]
    ELSE IF m.stack = <<>> \/ NeighborsRaise(m, m.stack[Len(m.stack)])
    THEN [maze |-> m, value |-> <<>>, exc |-> "IndexError"]
    ELSE LET currentPos == m.stack[Len(m.stack)]
             unvisitedNeighbors == get_unvisited_neighbors(m, currentPos)
         IN IF unvisitedNeighbors # <<>>
            THEN [maze |-> Carve(m, currentPos, unvisitedNeighbors),
                  value |-> <<TRUE, TRUE>>, exc |-> "None"]
            ELSE [maze |-> Backtrack(m),
                  value |-> <<TRUE, FALSE>>, exc |-> "None"]

----------------------------------------------------------------------------
(* Maze.check_goal_reached *)

\* slip: the early return left out, every call scans the stack
CacheHit_Never(m, goalPos) == FALSE

\* line 209: "Don't do again if already found"
CacheHit(m, goalPos) == m.goalFound /\ goalPos = m.lastGoalPos

\* slip: the loop runs over self.stack, bottom to top
reversed_Forward(stack) == stack

\* reversed(self.stack)
reversed(stack) == [i \in 1 .. Len(stack) |-> stack[Len(stack) + 1 - i]]

\* slip: only the x coordinates are compared
Matches_XOnly(currentPos, goalPos) ==
    goalPos # <<>> /\ currentPos[1] = goalPos[1]

\* line 217: currentPos == goalPos
Matches(currentPos, goalPos) == currentPos = goalPos

\* the loop of lines 216-220 over the positions still to scan
RECURSIVE ScanLoop(_, _, _, _)
ScanLoop(rest, goalPos, found, path) ==
    IF rest = <<>>
    THEN [found |-> found, path |-> path]
    ELSE LET currentPos == Head(rest)
             found1 == found \/ Matches(currentPos, goalPos)
             path1 == IF found1 THEN Append(path, currentPos) ELSE path
         IN ScanLoop(Tail(rest), goalPos, found1, path1)

\* slip: "self.stack.reverse()" in place of "reversed(self.stack)"
check_goal_reached_ReverseInPlace(m, goalPos) ==
    IF CacheHit(m, goalPos)
    THEN [maze |-> m, value |-> <<TRUE>>, exc |-> "None"]
    ELSE LET s == ScanLoop(reversed(m.stack), goalPos, FALSE, <<>>)
         IN [maze |-> [m EXCEPT !.stack = reversed(@),
                                !.goalPath = s.path,
                                !.lastGoalPos = goalPos,
                                !.goalFound = s.found],
             value |-> <<s.found>>, exc |-> "None"]

\* slip: self.goalPath assigned only when the goal was found
check_goal_reached_KeepPath(m, goalPos) ==
    IF CacheHit(m, goalPos)
    THEN [maze |-> m, value |-> <<TRUE>>, exc |-> "None"]
    ELSE LET s == ScanLoop(reversed(m.stack), goalPos, FALSE, <<>>)
         IN [maze |-> [m EXCEPT !.goalPath = IF s.found THEN s.path ELSE @,
                                !.lastGoalPos = goalPos,
                                !.goalFound = s.found],
             value |-> <<s.found>>, exc |-> "None"]

check_goal_reached(m, goalPos) ==
    IF CacheHit(m, goalPos)
    THEN [maze |-> m, value |-> <<TRUE>>, exc |-> "None"]
    ELSE LET s == ScanLoop(reversed(m.stack), goalPos, FALSE, <<>>)
         IN [maze |-> [m EXCEPT !.goalPath = s.path,
                                !.lastGoalPos = goalPos,
                                !.goalFound = s.found],
             value |-> <<s.found>>, exc |-> "None"]

----------------------------------------------------------------------------
(* The calls a client makes on the instance *)

\* Maze(width, height, start, randomSeed): the state after construction
Construct(width, height, start, randomSeed) ==
    /\ startPos = start
    /\ hist = [calls |-> 0, carves |-> 0, backtracks |-> 0, idle |-> 0,
               finished |-> FALSE, trueGoal |-> <<>>, scanned |-> FALSE]
    /\ IF InitRaises(width, height, start)
       THEN /\ maze = MazeFields(width, height, start, randomSeed)
            /\ ret = [op |-> "__init__", arg |-> <<>>, value |-> <<>>,
                      exc |-> "IndexError"]
       ELSE /\ maze = NewMaze(width, height, start, randomSeed)
            /\ ret = [op |-> "__init__", arg |-> <<>>, value |-> <<>>,
                      exc |-> "None"]

\* the class is used by a client of its own: main() is not running
NoDriver == [running |-> FALSE]

\* valid construction: width, height >= 1 and an in-bounds start
Init ==
    \E width \in 1 .. MaxW, height \in 1 .. MaxH, randomSeed \in 0 .. MaxSeed :
        \E x \in 0 .. (width - 1), y \in 0 .. (height - 1) :
            /\ width * height <= MaxSize
            /\ Construct(width, height, <<x, y>>, randomSeed)
            /\ driver = NoDriver

\* any construction, the arguments unchecked
InitAnyArgs ==
    \E width \in (-1) .. MaxW, height \in (-1) .. MaxH,
       randomSeed \in 0 .. MaxSeed :
        \E x \in (-1) .. MaxW, y \in (-1) .. MaxH :
            /\ width * height <= MaxSize
            /\ Construct(width, height, <<x, y>>, randomSeed)
            /\ driver = NoDriver

\* hist counts the advance() calls up to the first one that returns
\* stillAdvancing = False (calls, carves, backtracks), the calls that returned
\* (False, False) up to MaxIdle (idle), and remembers the goal for which
\* check_goal_reached returned True with no other goal asked since (trueGoal)
\* and whether the last check_goal_reached call scanned the stack (scanned).

\* an exception ends the run: nothing in the program catches it
Alive == ret.exc = "None"

\* the history after an advance() call with outcome r
HistAdvance(h, r) ==
    LET counted == ~h.finished
        carved == r.exc = "None" /\ r.value = <<TRUE, TRUE>>
        popped == r.exc = "None" /\ r.value = <<TRUE, FALSE>>
        stopped == r.exc = "None" /\ r.value = <<FALSE, FALSE>>
    IN [h EXCEPT
          !.calls = IF counted THEN @ + 1 ELSE @,
          !.carves = IF counted /\ carved THEN @ + 1 ELSE @,
          !.backtracks = IF counted /\ popped THEN @ + 1 ELSE @,
          !.idle = IF stopped /\ @ < MaxIdle THEN @ + 1 ELSE @,
          !.finished = @ \/ stopped]

\* maze.advance()
Advance ==
    /\ Alive
    /\ \E r \in {advance(maze)} :
          /\ maze' = r.maze
          /\ ret' = [op |-> "advance", arg |-> <<>>, value |-> r.value,
                     exc |-> r.exc]
          /\ hist' = HistAdvance(hist, r)
    /\ UNCHANGED <<startPos, driver>>

\* the goal positions a client asks about: every cell of the grid and one
\* position right of it (a click in the window's last, partial column)
GoalPositions ==
    ((0 .. (maze.width - 1)) \X (0 .. (maze.height - 1))) \cup {<<maze.width, 0>>}

\* the history after check_goal_reached(goalPos) on m with outcome r
HistGoal(h, m, goalPos, r) ==
    [h EXCEPT
       !.trueGoal = IF goalPos = @ THEN @
                    ELSE IF r.value = <<TRUE>> THEN goalPos
                    ELSE <<>>,
       !.scanned = ~CacheHit(m, goalPos)]

\* maze.check_goal_reached(goalPos)
CheckGoalReached(goalPos) ==
    /\ Alive
    /\ \E r \in {check_goal_reached(maze, goalPos)} :
          /\ maze' = r.maze
          /\ ret' = [op |-> "check_goal_reached", arg |-> goalPos,
                     value |-> r.value, exc |-> r.exc]
          /\ hist' = HistGoal(hist, maze, goalPos, r)
    /\ UNCHANGED <<startPos, driver>>

CheckGoal == \E goalPos \in GoalPositions : CheckGoalReached(goalPos)

Next == Advance \/ CheckGoal

Spec == Init /\ [][Next]_vars

SpecAnyArgs == InitAnyArgs /\ [][Next]_vars

----------------------------------------------------------------------------
(* main(): the window, the event handlers and the frame update *)

SCREEN_SIZE == <<1280, 720>>
BLOCK_SIZE == 24
DEFAULT_STARTPOS == <<0, 0>>
DEFAULT_SEED == 1234

\* int(a / BLOCK_SIZE) for a >= 0: the quotient, its fraction cut off
Blocks(a) == a \div BLOCK_SIZE

\* line 324: the cell under the pixel mousePos
mazeMousePos(mousePos) == <<Blocks(mousePos[1]), Blocks(mousePos[2])>>

\* the pixels of a window a button is pressed at: the first pixel of every
\* block column and block row, and the last pixel column and row
Pixels(screen) ==
    LET Samples(n) == {p \in 0 .. (n - 1) : p % BLOCK_SIZE = 0} \cup {n - 1}
    IN Samples(screen[1]) \X Samples(screen[2])

\* lines 277-290: main() up to the first pass of its loop, in a window of
\* size screen
MainInit(screen) ==
    LET mazeWidth == Blocks(screen[1])
        mazeHeight == Blocks(screen[2])
    IN /\ driver = [running |-> TRUE, screen |-> screen,
                    mazeWidth |-> mazeWidth, mazeHeight |-> mazeHeight,
                    mazeGoalPos |-> <<mazeWidth - 1, mazeHeight - 1>>,
                    randomSeed |-> DEFAULT_SEED,
                    isAdvancing |-> TRUE, checkGoal |-> TRUE,
                    events |-> 0, spaces |-> 0]
       /\ Construct(mazeWidth, mazeHeight, DEFAULT_STARTPOS, DEFAULT_SEED)

\* "maze = Maze(mazeWidth, mazeHeight, mazeStartPos, randomSeed)" in a handler
Replace(mazeStartPos, randomSeed) ==
    /\ startPos' = mazeStartPos
    /\ hist' = [calls |-> 0, carves |-> 0, backtracks |-> 0, idle |-> 0,
                finished |-> FALSE, trueGoal |-> <<>>, scanned |-> FALSE]
    /\ IF InitRaises(driver.mazeWidth, driver.mazeHeight, mazeStartPos)
       THEN /\ maze' = MazeFields(driver.mazeWidth, driver.mazeHeight,
                                  mazeStartPos, randomSeed)
            /\ ret' = [op |-> "__init__", arg |-> <<>>, value |-> <<>>,
                       exc |-> "IndexError"]
       ELSE /\ maze' = NewMaze(driver.mazeWidth, driver.mazeHeight,
                               mazeStartPos, randomSeed)
            /\ ret' = [op |-> "__init__", arg |-> <<>>, value |-> <<>>,
                       exc |-> "None"]

\* one more event has been handled (events), SPACE among them (spaces)
Handled(d) == [d EXCEPT !.events = @ + 1]

\* SPACE
KeySpace ==
    /\ Alive
    /\ driver' = [Handled(driver) EXCEPT !.isAdvancing = ~@, !.spaces = @ + 1]
    /\ UNCHANGED <<maze, ret, startPos, hist>>

\* RETURN
KeyReturn ==
    /\ Alive
    /\ Replace(startPos, driver.randomSeed)
    /\ driver' = Handled(driver)

\* R: random.randint(1, 9999), here one of 1 .. MaxSeed
KeyR ==
    /\ Alive
    /\ \E randomSeed \in 1 .. MaxSeed :
          /\ Replace(startPos, randomSeed)
          /\ driver' = [Handled(driver) EXCEPT !.randomSeed = randomSeed]

\* G
KeyG ==
    /\ Alive
    /\ driver' = [Handled(driver) EXCEPT !.checkGoal = ~@]
    /\ UNCHANGED <<maze, ret, startPos, hist>>

\* UP
KeyUp ==
    /\ Alive
    /\ Replace(startPos, driver.randomSeed + 1)
    /\ driver' = [Handled(driver) EXCEPT !.randomSeed = @ + 1]

\* DOWN
KeyDown ==
    /\ Alive
    /\ Replace(startPos, driver.randomSeed - 1)
    /\ driver' = [Handled(driver) EXCEPT !.randomSeed = @ - 1]

\* left mouse button down at the pixel mousePos
LeftButton(mousePos) ==
    /\ Alive
    /\ Replace(mazeMousePos(mousePos), driver.randomSeed)
    /\ driver' = Handled(driver)

\* right mouse button down at the pixel mousePos
RightButton(mousePos) ==
    /\ Alive
    /\ driver' = [Handled(driver) EXCEPT !.mazeGoalPos = mazeMousePos(mousePos)]
    /\ UNCHANGED <<maze, ret, startPos, hist>>

\* lines 340-341: "while not needsUpdate and isAdvancing:
\*                     isAdvancing, needsUpdate = maze.advance()"
RECURSIVE AdvanceLoop(_, _)
AdvanceLoop(m, h) ==
    LET r == advance(m)
    IN IF r.exc = "None" /\ r.value = <<TRUE, FALSE>>
       THEN AdvanceLoop(r.maze, HistAdvance(h, r))
       ELSE [maze |-> r.maze, hist |-> HistAdvance(h, r),
             value |-> r.value, exc |-> r.exc]

\* lines 337-359: the update at the end of a pass of the loop
Frame ==
    /\ Alive
    /\ IF ~driver.isAdvancing
       THEN UNCHANGED vars
       ELSE \E a \in {AdvanceLoop(maze, hist)} :
              IF a.exc # "None"
              THEN /\ maze' = a.maze
                   /\ hist' = a.hist
                   /\ ret' = [op |-> "advance", arg |-> <<>>,
                              value |-> a.value, exc |-> a.exc]
                   /\ UNCHANGED <<startPos, driver>>
              ELSE /\ driver' = [driver EXCEPT !.isAdvancing = a.value[1]]
                   /\ UNCHANGED startPos
                   /\ IF driver.checkGoal
                      THEN \E g \in {check_goal_reached(a.maze,
                                                        driver.mazeGoalPos)} :
                             /\ maze' = g.maze
                             /\ hist' = HistGoal(a.hist, a.maze,
                                                 driver.mazeGoalPos, g)
                             /\ ret' = [op |-> "check_goal_reached",
                                        arg |-> driver.mazeGoalPos,
                                        value |-> g.value, exc |-> g.exc]
                      ELSE /\ maze' = a.maze
                           /\ hist' = a.hist
                           /\ ret' = [op |-> "advance", arg |-> <<>>,
                                      value |-> a.value, exc |-> a.exc]

\* the real window, and left clicks in it
InitWindow == MainInit(SCREEN_SIZE)

LeftClick ==
    /\ driver.events < MaxClicks
    /\ \E mousePos \in Pixels(driver.screen) : LeftButton(mousePos)

NextWindow == LeftClick

SpecWindow == InitWindow /\ [][NextWindow]_vars

\* a window of WinW x WinH pixels, every event and the frame update
InitMain == MainInit(<<WinW, WinH>>)

Space == driver.events < MaxEvents /\ KeySpace

Return == driver.events < MaxEvents /\ KeyReturn

Randomize == driver.events < MaxEvents /\ KeyR

ToggleGoal == driver.events < MaxEvents /\ KeyG

SeedUp == driver.events < MaxEvents /\ KeyUp

SeedDown == driver.events < MaxEvents /\ KeyDown

SetStart ==
    /\ driver.events < MaxEvents
    /\ \E mousePos \in Pixels(driver.screen) : LeftButton(mousePos)

SetGoal ==
    /\ driver.events < MaxEvents
    /\ \E mousePos \in Pixels(driver.screen) : RightButton(mousePos)

NextMain ==
    \/ Space \/ Return \/ Randomize \/ ToggleGoal \/ SeedUp \/ SeedDown
    \/ SetStart \/ SetGoal \/ Frame

SpecMain == InitMain /\ [][NextMain]_vars

----------------------------------------------------------------------------
(* Vocabulary of the properties, independent of the operators above *)

\* the coordinates of the grid
Cells == (0 .. (maze.width - 1)) \X (0 .. (maze.height - 1))

\* the flags of the cell at row-major index y * width + x
CellAt(pos) == maze.cells[pos[2] * maze.width + pos[1]]

\* CELLFLAGS by direction: "connected to northern / eastern / ... neighbor"
PathBit(dir) == <<CELL_PATH_N, CELL_PATH_E, CELL_PATH_S, CELL_PATH_W>>[dir + 1]

Opposite(dir) == (dir + 2) % 4

Neighbor(pos, dir) ==
    <<pos[1] + DIRECTIONS[dir + 1][1], pos[2] + DIRECTIONS[dir + 1][2]>>

Range(seq) == {seq[i] : i \in DOMAIN seq}

\* the carved connections, as unordered pairs of coordinates
CarvedEdges ==
    {{a, Neighbor(a, dir)} : <<a, dir>> \in
        {ad \in Cells \X (0 .. 3) : PathBit(ad[2]) \in CellAt(ad[1])}}

\* the coordinates joined to the set `from` by the edges `edges`
RECURSIVE Reachable(_, _)
Reachable(from, edges) ==
    LET more == from \cup {b \in UNION edges : \E a \in from : {a, b} \in edges}
    IN IF more = from THEN from ELSE Reachable(more, edges)

Complete == maze.visitedCells = maze.width * maze.height

----------------------------------------------------------------------------
(* C1 - Full coverage: once advance() has returned stillAdvancing = False,  *)
(* visitedCells equals width * height and every cell of the grid has       *)
(* CELL_VISITED set.                                                       *)
C1_FullCoverage ==
    hist.finished =>
        /\ maze.visitedCells = maze.width * maze.height
        /\ \A pos \in Cells : CELL_VISITED \in CellAt(pos)

\* a 3 x 2 maze finished after two dead ends
C1_Witness ==
    /\ hist.finished /\ hist.backtracks = 2
    /\ maze.width = 3 /\ maze.height = 2

(* C2 - Spanning tree: when generation is complete there are exactly        *)
(* width * height - 1 carved edges, every edge joins two cells of the grid, *)
(* every cell is joined to the start by carved edges, and no edge lies on a *)
(* cycle (without it its two ends are no longer joined).                   *)
C2_SpanningTree ==
    Complete =>
        /\ Cardinality(CarvedEdges) = maze.width * maze.height - 1
        /\ \A e \in CarvedEdges : e \subseteq Cells /\ Cardinality(e) = 2
        /\ Reachable({startPos}, CarvedEdges) = Cells
        /\ \A e \in CarvedEdges :
              \A a \in e : ~(e \subseteq Reachable({a}, CarvedEdges \ {e}))

\* a complete 2 x 2 maze started at (0, 0): 4 visited cells, 3 carved edges
C2_Witness ==
    /\ Complete /\ maze.width = 2 /\ maze.height = 2 /\ startPos = <<0, 0>>
    /\ maze.visitedCells = 4 /\ Cardinality(CarvedEdges) = 3

(* C3 - Symmetry: in every state, a PATH bit for direction D on a cell      *)
(* means the D-neighbor is in the grid and has the opposite PATH bit.      *)
C3_Symmetry ==
    \A pos \in Cells : \A dir \in 0 .. 3 :
        PathBit(dir) \in CellAt(pos) =>
            /\ Neighbor(pos, dir) \in Cells
            /\ PathBit(Opposite(dir)) \in CellAt(Neighbor(pos, dir))

\* connections have been carved in all four directions
C3_Witness ==
    \A dir \in 0 .. 3 :
        \E i \in 2 .. Len(maze.stack) :
            maze.stack[i] = Neighbor(maze.stack[i - 1], dir)

(* C4 - DONE is terminal: from a state with visitedCells >= width * height, *)
(* every step leaves cells, stack, visitedCells and the random source      *)
(* unchanged (so the state stays DONE), and an advance() call returns      *)
(* (False, False).                                                         *)
C4_DoneTerminal ==
    [][ maze.visitedCells >= maze.width * maze.height =>
          /\ maze'.cells = maze.cells
          /\ maze'.stack = maze.stack
          /\ maze'.visitedCells = maze.visitedCells
          /\ maze'.random = maze.random
          /\ (ret'.op = "advance" =>
                ret'.exc = "None" /\ ret'.value = <<FALSE, FALSE>>) ]_vars

\* advance() has been called again on a finished maze of several cells
C4_Witness ==
    /\ hist.idle = 2 /\ maze.visitedCells = 6
    /\ ret.op = "advance" /\ ret.value = <<FALSE, FALSE>>

(* C5 - Determinism of two instances stepped in lockstep: not stated here.  *)
(* advance is an operator of the object alone and the random source is a   *)
(* function of the seed, so two equal objects stay equal by definition.    *)

(* C6 - Goal caching: once check_goal_reached(G) has returned True and no   *)
(* other goal has been asked since, advance() calls and further            *)
(* check_goal_reached(G) calls leave goalPath, lastGoalPos and goalFound as *)
(* they are, and every such check_goal_reached(G) returns True.            *)
C6_GoalCaching ==
    [][ (hist.trueGoal # <<>>
            /\ (ret'.op = "advance" \/ ret'.arg = hist.trueGoal)) =>
          /\ maze'.goalPath = maze.goalPath
          /\ maze'.lastGoalPos = maze.lastGoalPos
          /\ maze'.goalFound = maze.goalFound
          /\ (ret'.op = "check_goal_reached" => ret'.value = <<TRUE>>) ]_vars

\* the repeated call answered True after the goal was popped by backtracking
C6_Witness ==
    /\ ret.op = "check_goal_reached" /\ ret.value = <<TRUE>>
    /\ ret.arg = hist.trueGoal /\ ~hist.scanned
    /\ hist.backtracks > 0
    /\ ret.arg \notin Range(maze.stack)

(* C7 as claimed - Live-stack-only reporting: check_goal_reached(goal)      *)
(* returns True only when goal is an element of the stack at the call.     *)
C7_LiveStackOnly ==
    (ret.op = "check_goal_reached" /\ ret.value = <<TRUE>>) =>
        ret.arg \in Range(maze.stack)

(* C7 amended - check_goal_reached(goal) returns True only when goal is on  *)
(* the stack at the call, or when it returned True for this goal before    *)
(* and no other goal has been asked since (the cached answer); a visited   *)
(* goal that has been popped gets False unless it is such a repetition.    *)
C7_LiveStackOrCached ==
    [][ (ret'.op = "check_goal_reached" /\ ret'.value = <<TRUE>>) =>
            \/ ret'.arg \in Range(maze.stack)
            \/ ret'.arg = hist.trueGoal ]_vars

\* not-found reported for a cell that was visited and has been popped
C7_Witness ==
    /\ ret.op = "check_goal_reached" /\ ret.value = <<FALSE>>
    /\ ret.arg \in Cells
    /\ CELL_VISITED \in CellAt(ret.arg)
    /\ ret.arg \notin Range(maze.stack)

(* C8 - Goal scan: a call that is not answered from the cache returns True  *)
(* iff goal occurs in the stack; then goalPath is the stack from goal down *)
(* to the bottom, goal first and the start cell last; otherwise goalPath   *)
(* is empty; lastGoalPos = goal and goalFound = the value returned.        *)
C8_GoalScan ==
    [][ (ret'.op = "check_goal_reached"
            /\ ~(maze.goalFound /\ ret'.arg = maze.lastGoalPos)) =>
          LET goalPos == ret'.arg
              onStack == goalPos \in Range(maze.stack)
              path == maze'.goalPath
          IN /\ ret'.value = <<onStack>>
             /\ maze'.lastGoalPos = goalPos
             /\ maze'.goalFound = onStack
             /\ onStack =>
                  \E i \in 1 .. Len(maze.stack) :
                     /\ maze.stack[i] = goalPos
                     /\ Len(path) = i
                     /\ \A k \in 1 .. i : path[k] = maze.stack[i + 1 - k]
                     /\ path[1] = goalPos /\ path[i] = startPos
             /\ ~onStack => path = <<>> ]_vars

\* stack S, A, B, C and goal A: the scan found [A, S]
C8_Witness ==
    /\ ret.op = "check_goal_reached" /\ hist.scanned /\ ret.value = <<TRUE>>
    /\ Len(maze.stack) = 4
    /\ ret.arg = maze.stack[2]
    /\ maze.goalPath = <<maze.stack[2], maze.stack[1]>>

(* C9 - Construction preconditions enforced as errors: width < 1 or         *)
(* height < 1 raises InvalidDimension, a start outside the grid raises     *)
(* OutOfBounds, and in neither case is there a generator with the start on *)
(* the stack and visitedCells = 1.                                         *)
C9_ConstructionErrors ==
    LET badDimension == maze.width < 1 \/ maze.height < 1
        badStart == ~(/\ 0 <= startPos[1] /\ startPos[1] < maze.width
                      /\ 0 <= startPos[2] /\ startPos[2] < maze.height)
    IN ret.op = "__init__" =>
          /\ badDimension => ret.exc = "InvalidDimension"
          /\ (~badDimension /\ badStart) => ret.exc = "OutOfBounds"
          /\ (badDimension \/ badStart) =>
                ~(maze.stack = <<startPos>> /\ maze.visitedCells = 1)

(* C10 - Step bound and termination: no advance() call raises, and the     *)
(* calls made until advance() first returns stillAdvancing = False (that   *)
(* call included) never number more than 2 * width * height - 1, so that   *)
(* call comes after at most 2 * width * height - 2 others: they are        *)
(* exactly width * height - 1 carving steps and at most                   *)
(* width * height - 1 backtracking steps.                                  *)
C10_StepBound ==
    LET size == maze.width * maze.height
    IN /\ ret.exc = "None"
       /\ hist.calls <= 2 * size - 1
       /\ hist.calls = hist.carves + hist.backtracks
                            + (IF hist.finished THEN 1 ELSE 0)
       /\ hist.carves <= size - 1
       /\ hist.backtracks <= size - 1
       /\ hist.finished => hist.carves = size - 1

\* a 3 x 2 maze finished by the 8th call: 5 carves, 2 backtracks, the last
C10_Witness ==
    /\ hist.finished /\ hist.calls = 8
    /\ hist.carves = 5 /\ hist.backtracks = 2

(* C11 - Boundary 1 x 1: a 1 x 1 maze is DONE from construction on          *)
(* (visitedCells = size = 1), and every advance() call on it, the first    *)
(* one included, returns (False, False) and leaves cells, stack,           *)
(* visitedCells and the random source as they are.                         *)
C11_OneByOne ==
    [][ (maze.width = 1 /\ maze.height = 1) =>
          /\ maze.visitedCells = 1 /\ maze.size = 1
          /\ (ret'.op = "advance" =>
                /\ ret'.exc = "None" /\ ret'.value = <<FALSE, FALSE>>
                /\ maze'.cells = maze.cells
                /\ maze'.stack = maze.stack
                /\ maze'.visitedCells = maze.visitedCells
                /\ maze'.random = maze.random) ]_vars

\* the first advance() call on a 1 x 1 maze has returned (False, False)
C11_Witness ==
    /\ maze.width = 1 /\ maze.height = 1 /\ startPos = <<0, 0>>
    /\ ret.op = "advance" /\ ret.value = <<FALSE, FALSE>>
    /\ hist.calls = 1 /\ hist.idle = 1
    /\ maze.stack = <<startPos>>

(* C12 - Stack is a simple carved path: the stack holds no cell twice, its  *)
(* bottom is the start cell, every entry is an in-bounds VISITED cell, and  *)
(* consecutive entries are 4-adjacent and joined by the carved connection   *)
(* in both directions.                                                      *)
C12_StackPath ==
    /\ \A i, j \in 1 .. Len(maze.stack) : maze.stack[i] = maze.stack[j] => i = j
    /\ maze.stack # <<>> => maze.stack[1] = startPos
    /\ \A i \in 1 .. Len(maze.stack) :
          maze.stack[i] \in Cells /\ CELL_VISITED \in CellAt(maze.stack[i])
    /\ \A i \in 1 .. (Len(maze.stack) - 1) :
          \E dir \in {NORTH, EAST, SOUTH, WEST} :
             /\ maze.stack[i + 1] = Neighbor(maze.stack[i], dir)
             /\ PathBit(dir) \in CellAt(maze.stack[i])
             /\ PathBit(Opposite(dir)) \in CellAt(maze.stack[i + 1])

\* a stack of at least three cells that has already been popped from
C12_Witness ==
    /\ Len(maze.stack) >= 3
    /\ hist.backtracks >= 1
    /\ maze.visitedCells < maze.size

(* C13 - Stack never empties early: while fewer than width * height cells   *)
(* are visited the stack is non-empty, so "self.stack[-1]" never raises and *)
(* a pop never removes the last entry before the maze is complete.          *)
C13_StackNonEmpty ==
    /\ ret.exc = "None"
    /\ maze.visitedCells < maze.width * maze.height => Len(maze.stack) >= 1

\* a backtracking pop has left only the start cell while cells are missing
C13_Witness ==
    /\ ret.op = "advance" /\ ret.value = <<TRUE, FALSE>>
    /\ maze.stack = <<startPos>>
    /\ maze.visitedCells < maze.width * maze.height

(* C14 - visitedCells counter is exact: visitedCells equals the number of   *)
(* cells whose flags contain CELL_VISITED, it is 1 right after              *)
(* construction, it never exceeds width * height, and no step decreases it. *)
C14_CounterExact ==
    /\ [](/\ maze.visitedCells =
                Cardinality({pos \in Cells : CELL_VISITED \in CellAt(pos)})
          /\ maze.visitedCells <= maze.width * maze.height
          /\ (ret.op = "__init__" => maze.visitedCells = 1))
    /\ [][maze'.visitedCells >= maze.visitedCells]_vars

\* the counter has grown by carving and a pop has left it where it was
C14_Witness ==
    /\ ret.op = "advance" /\ ret.value = <<TRUE, FALSE>>
    /\ maze.visitedCells >= 3
    /\ maze.visitedCells = hist.carves + 1

(* C15 - advance() step frame effect: a call of advance() made while        *)
(* visitedCells < width * height either carves or backtracks.  It carves    *)
(* when the cell on top of the stack has an in-bounds unvisited neighbour:  *)
(* it returns (True, True), adds the PATH bit of the chosen direction to    *)
(* the current cell and the opposite PATH bit and VISITED to that           *)
(* neighbour, pushes the neighbour, adds one to visitedCells and changes no *)
(* other cell.  It backtracks exactly when there is no such neighbour: it   *)
(* returns (True, False), pops one entry and leaves cells and visitedCells. *)
C15_AdvanceStep ==
    [][ (ret'.op = "advance" /\ maze.visitedCells < maze.width * maze.height) =>
        LET cur == maze.stack[Len(maze.stack)]
            At(pos) == pos[2] * maze.width + pos[1]
            cands == {dir \in {NORTH, EAST, SOUTH, WEST} :
                         /\ Neighbor(cur, dir) \in Cells
                         /\ CELL_VISITED \notin CellAt(Neighbor(cur, dir))}
        IN /\ ret'.exc = "None"
           /\ maze'.width = maze.width /\ maze'.height = maze.height
           /\ IF cands # {}
              THEN /\ ret'.value = <<TRUE, TRUE>>
                   /\ maze'.visitedCells = maze.visitedCells + 1
                   /\ \E dir \in cands :
                        /\ maze'.stack = Append(maze.stack, Neighbor(cur, dir))
                        /\ maze'.cells =
                             [i \in DOMAIN maze.cells |->
                                IF i = At(cur)
                                THEN maze.cells[i] \cup {PathBit(dir)}
                                ELSE IF i = At(Neighbor(cur, dir))
                                THEN maze.cells[i]
                                       \cup {PathBit(Opposite(dir)), CELL_VISITED}
                                ELSE maze.cells[i]]
              ELSE /\ ret'.value = <<TRUE, FALSE>>
                   /\ maze'.stack = SubSeq(maze.stack, 1, Len(maze.stack) - 1)
                   /\ maze'.cells = maze.cells
                   /\ maze'.visitedCells = maze.visitedCells
                   /\ maze'.random = maze.random ]_vars

\* both kinds of step have been taken, the last one a carve after a pop
C15_Witness ==
    /\ ret.op = "advance" /\ ret.value = <<TRUE, TRUE>>
    /\ hist.backtracks >= 1 /\ hist.carves >= 2

C17_GoalFrame ==
    [][ ret'.op = "check_goal_reached" =>
          /\ ret'.exc = "None"
          /\ maze'.cells = maze.cells
          /\ maze'.stack = maze.stack
          /\ maze'.visitedCells = maze.visitedCells
          /\ maze'.random = maze.random
          /\ maze'.width = maze.width /\ maze'.height = maze.height
          /\ maze'.size = maze.size ]_vars

\* a query for a goal outside the grid has scanned a stack of several cells,
\* after a query for a goal on the stack
C17_Witness ==
    /\ ret.op = "check_goal_reached"
    /\ ret.arg \notin Cells /\ ret.value = <<FALSE>>
    /\ hist.scanned
    /\ Len(maze.stack) >= 3
    /\ maze.lastGoalPos = ret.arg

(* C18 - goalPath well-formedness: while goalFound is True, goalPath is     *)
(* non-empty, starts at lastGoalPos, ends at the start cell, holds no cell  *)
(* twice, and consecutive elements are adjacent cells joined by carved PATH *)
(* bits of the current grid; while goalFound is False (before and after any *)
(* query) goalPath is empty.                                                *)
C18_GoalPath ==
    /\ maze.goalFound =>
         /\ maze.goalPath # <<>>
         /\ maze.goalPath[1] = maze.lastGoalPos
         /\ maze.goalPath[Len(maze.goalPath)] = startPos
         /\ \A i, j \in 1 .. Len(maze.goalPath) :
               maze.goalPath[i] = maze.goalPath[j] => i = j
         /\ \A i \in 1 .. Len(maze.goalPath) : maze.goalPath[i] \in Cells
         /\ \A i \in 1 .. (Len(maze.goalPath) - 1) :
               \E dir \in {NORTH, EAST, SOUTH, WEST} :
                  /\ maze.goalPath[i + 1] = Neighbor(maze.goalPath[i], dir)
                  /\ PathBit(dir) \in CellAt(maze.goalPath[i])
                  /\ PathBit(Opposite(dir)) \in CellAt(maze.goalPath[i + 1])
    /\ ~maze.goalFound => maze.goalPath = <<>>

\* a stored path of three cells or more whose goal has left the stack since
C18_Witness ==
    /\ maze.goalFound
    /\ Len(maze.goalPath) >= 3
    /\ maze.lastGoalPos \notin Range(maze.stack)
    /\ ret.op = "advance"

(* C19 - The driver only constructs valid mazes: with mazeWidth =           *)
(* int(1280 / 24) and mazeHeight = int(720 / 24), every start coordinate    *)
(* main() passes to the Maze constructor, the default (0, 0) and the cell   *)
(* under a left click at any pixel of the 1280 x 720 window, satisfies      *)
(* 0 <= x < mazeWidth and 0 <= y < mazeHeight.                              *)
C19_ValidStart ==
    /\ driver.mazeWidth = Blocks(SCREEN_SIZE[1])
    /\ driver.mazeHeight = Blocks(SCREEN_SIZE[2])
    /\ 0 <= startPos[1] /\ startPos[1] < driver.mazeWidth
    /\ 0 <= startPos[2] /\ startPos[2] < driver.mazeHeight

(* C20 - Reset restarts generation: as long as SPACE has not been pressed,  *)
(* a maze that is not complete is being advanced by the frames, whether it  *)
(* is the first maze or one that RETURN, R, UP, DOWN or a left click (on a  *)
(* cell of the grid) put in its place, also after the maze before it        *)
(* reached DONE.  A frame calls advance() exactly when isAdvancing is True. *)
C20_ResetRestarts ==
    (/\ driver.spaces = 0
     /\ Alive
     /\ startPos \in Cells
     /\ maze.visitedCells < maze.width * maze.height)
        => driver.isAdvancing

====
